---------------------------- MODULE Spec2Model ----------------------------
(***************************************************************************)
(* file-deduplicator: the hashing/grouping engine of src/src/relate.rs.    *)
(*                                                                         *)
(* One run is modelled: WalkInfo::walk over a directory tree, then         *)
(* RelatedFiles::relate on the inventory, on its sequential path           *)
(* (relate_sequential) or on its parallel path (one worker thread per      *)
(* chunk, an mpsc channel, and the coordinator loop of relate).  The       *)
(* environment may change or remove a file after the walk and may drop     *)
(* the receiving end of the progress channel.                              *)
(*                                                                         *)
(* The two GUI binaries (src/src/main.rs, src/src/bin/file_deduplicator.rs)*)
(* are modelled by a second specification, GuiSpec: the iced application   *)
(* delivers to State::update the messages of the controls State::view      *)
(* shows, and the environment creates and removes directories.             *)
(*                                                                         *)
(* Paths are the positions 1..Len(fs) of the entries WalkDir yields (1 is  *)
(* the root); 0 stands for the "<no path>" placeholder.  File contents     *)
(* are byte strings over Bytes.  HashSet iteration order is unspecified    *)
(* in Rust; here it is ascending path order, which loses nothing because   *)
(* Init assigns every combination of kinds and contents to the paths.      *)
(***************************************************************************)
EXTENDS Integers, Sequences, FiniteSets, TLC

\* ---------------------------------------------------------------- bounds
MaxEntries == 2      \* entries WalkDir yields below the root
MaxLen == 1          \* longest file content, in bytes
MaxThreads == 2      \* largest conf.max_threads
MaxThreshold == 2    \* largest conf.size_threshold
MaxFaults == 1       \* files changed or removed after the walk
MaxRepeats == 1      \* entries the directory listing yields a second time
MaxPaths == 3        \* folders the file picker can return

Bytes == {0, 1}
NoPath == 0

VARIABLES
    fs,         \* the tree: path -> [kind, content, len]
    iter,       \* the paths the WalkDir iterator yields, in order
    faults,     \* paths changed or removed after walk() saw them
    conf,       \* RelateConf
    pc,         \* position of the thread that calls walk() and relate()
    wi,         \* walk(): position of the next entry of the WalkDir iterator
    walk,       \* WalkInfo
    seqTodo,    \* relate_sequential: descriptors the for_each has still to visit
    threads,    \* relate: the workers, [chunk, st]
    chan,       \* relate: results sent on tx and not yet received on rx
    done,       \* relate / relate_sequential: done
    files,      \* relate / relate_sequential: files (hash -> set of FileInfo)
    errors,     \* relate / relate_sequential: errors
    ji,         \* relate: index of the next thread to join
    report,     \* the f32 values sent on the progress channel so far
    reportRx,   \* TRUE while the receiving end of the progress channel exists
    panic,      \* "none", or why the calling thread panicked
    strategy,   \* "none", or the path relate() took: "seq" or "par"
    app,        \* the GUI binary that runs: "main" or "file_deduplicator"
    state,      \* the GUI's State: [tag, config, problem, path]
    dirs,       \* the folders that exist
    todo        \* TRUE once State::update reached todo!()

relateVars ==
    <<fs, iter, faults, conf, pc, wi, walk, seqTodo, threads, chan, done, files,
      errors, ji, report, reportRx, panic, strategy>>

guiVars == <<app, state, dirs, todo>>

vars == <<fs, iter, faults, conf, pc, wi, walk, seqTodo, threads, chan, done, files,
          errors, ji, report, reportRx, panic, strategy, app, state, dirs, todo>>

\* ------------------------------------------------------------ helpers
Max(a, b) == IF a >= b THEN a ELSE b

Contents == UNION {[1..n -> Bytes] : n \in 0..MaxLen}

\* SHA-256 is taken to be collision free: the digest of a byte string is its
\* value as a binary numeral behind a leading 1, an injective encoding.
RECURSIVE Sha256(_)
Sha256(bytes) ==
    IF bytes = <<>> THEN 1
    ELSE 2 * Sha256(SubSeq(bytes, 1, Len(bytes) - 1)) + bytes[Len(bytes)]

\* --------------------------------------------------------------- f32
\* An f32 is "nan", "inf", "zero" or a positive finite m * 2^(e-23) with a
\* 24-bit mantissa 2^23 <= m < 2^24.  `n as f32` is exact for n < 2^24, which
\* covers every counter and size of the model.
TwoP23 == 8388608
TwoP24 == 16777216

F32One == [cls |-> "fin", m |-> TwoP23, e |-> 0]
F32Zero == [cls |-> "zero", m |-> 0, e |-> 0]
F32Inf == [cls |-> "inf", m |-> 0, e |-> 0]
F32NaN == [cls |-> "nan", m |-> 0, e |-> 0]

\* scale n/d into [1,2): <<n', d', e>> with d' <= n' < 2d', n/d = (n'/d') * 2^e
RECURSIVE F32Norm(_, _, _)
F32Norm(n, d, e) ==
    IF n < d THEN F32Norm(2 * n, d, e - 1)
    ELSE IF n >= 2 * d THEN F32Norm(n, 2 * d, e + 1)
    ELSE <<n, d, e>>

\* the 24 quotient bits of n/d for d <= n < 2d: <<mantissa, twice the remainder>>
F32Bits(n, d) == <<(n * TwoP23) \div d, 2 * ((n * TwoP23) % d)>>

\* n as f32 / d as f32, rounded to nearest, ties to even
F32Div(n, d) ==
    IF d = 0 THEN (IF n = 0 THEN F32NaN ELSE F32Inf)
    ELSE IF n = 0 THEN F32Zero
    ELSE LET nd == F32Norm(n, d, 0)
             mr == F32Bits(nd[1], nd[2])
             up == mr[2] > nd[2] \/ (mr[2] = nd[2] /\ mr[1] % 2 = 1)
             m  == IF up THEN mr[1] + 1 ELSE mr[1]
         IN  IF m = TwoP24 THEN [cls |-> "fin", m |-> TwoP23, e |-> nd[3] + 1]
             ELSE [cls |-> "fin", m |-> m, e |-> nd[3]]

\* a < b on f32 (every comparison with NaN is false)
F32Lt(a, b) ==
    /\ a.cls # "nan" /\ b.cls # "nan"
    /\ \/ a.cls = "zero" /\ b.cls \in {"fin", "inf"}
       \/ a.cls = "fin" /\ b.cls = "inf"
       \/ a.cls = "fin" /\ b.cls = "fin"
                        /\ (a.e < b.e \/ (a.e = b.e /\ a.m < b.m))

F32Le(a, b) == a.cls # "nan" /\ b.cls # "nan" /\ (a = b \/ F32Lt(a, b))

\* ------------------------------------------------------ the file system
FileEntry(c) == [kind |-> "file", content |-> c, len |-> Len(c)]
DirEntry(n) == [kind |-> "dir", content |-> <<>>, len |-> n]
BadEntry(k) == [kind |-> k, content |-> <<>>, len |-> 0]

\* what the WalkDir iterator can yield for the root and below it
RootEntries ==
    {DirEntry(n) : n \in 0..MaxLen} \cup {FileEntry(c) : c \in Contents}
        \cup {BadEntry("walkerr")}
ChildEntries ==
    {FileEntry(c) : c \in Contents} \cup {DirEntry(n) : n \in 0..MaxLen}
        \cup {BadEntry(k) : k \in {"walkerr", "metaerr", "nocreated"}}

Trees ==
    UNION {{t \in [1..n -> RootEntries \cup ChildEntries] :
              /\ t[1] \in RootEntries
              /\ \A i \in 2..n : t[i] \in ChildEntries
              /\ (t[1].kind # "dir" => n = 1)} : n \in 1..(MaxEntries + 1)}

\* The iterator yields the root, then what the directory listings return:
\* every entry in order, and an entry below the root possibly again (a
\* listing can return a name twice while the directory is being changed).
\* walk() folds over whatever sequence it is given.
Iters(n) ==
    UNION {{s \in [1..m -> 1..n] :
              /\ s[1] = 1
              /\ \A i \in 2..m : s[i] > 1 /\ s[i] >= s[i - 1]
              /\ \A p \in 1..n : \E i \in 1..m : s[i] = p} : m \in n..(n + MaxRepeats)}

Confs ==
    [max_threads : 0..MaxThreads,
     file_threshold : {0, MaxThreshold},
     size_threshold : 0..MaxThreshold]

\* ------------------------------------------------------------- errors
Error(path, type, expected, actual) ==
    [path |-> path, error_type |-> type, expected |-> expected, actual |-> actual]

io_error(path) == Error(path, "IO", 0, 0)
walkdir_error(path) == Error(path, "WalkDir", 0, 0)
wrong_size(path, expected, actual) == Error(path, "WrongSize", expected, actual)
no_created(path) == Error(path, "NoCreatedTime", 0, 0)

\* ------------------------------------------------------------ FileInfo
FileInfo(name, size) == [name |-> name, size |-> size, created |-> 0]

\* FileInfo::from_entry: <<"Ok", FileInfo>> or <<"Err", Error>>.  The file
\* type is not looked at: a directory yields a descriptor like a file does.
from_entry(p) ==
    CASE fs[p].kind = "metaerr" -> <<"Err", walkdir_error(p)>>
      [] fs[p].kind = "nocreated" -> <<"Err", no_created(p)>>
      [] OTHER -> <<"Ok", FileInfo(p, fs[p].len)>>

\* ------------------------------------------------------------ WalkInfo
WalkInfoNew == [total_size |-> 0, files |-> {}, errors |-> <<>>]

insert_error(w, error) == [w EXCEPT !.errors = Append(@, error)]

insert_entry(w, p) ==
    LET r == from_entry(p)
    IN  IF r[1] = "Err" THEN insert_error(w, r[2])
        ELSE [w EXCEPT !.total_size = @ + r[2].size,
                       !.files = @ \cup {r[2]}]

\* the fold with the traversal's own errors dropped instead of recorded
WalkFold_skip(w, p) ==
    IF fs[p].kind = "walkerr" THEN w
    ELSE insert_entry(w, p)

\* one iteration of the fold of walk()
WalkFold(w, p) ==
    IF fs[p].kind = "walkerr" THEN insert_error(w, io_error(NoPath))
    ELSE insert_entry(w, p)

\* ------------------------------------------------------------- hashing
\* hash_from_file_info without the comparison of the bytes read with
\* info.size
hash_from_file_info_unverified(info) ==
    LET f == fs[info.name]
    IN  IF f.kind # "file" THEN <<"Err", io_error(info.name)>>
        ELSE <<"Ok", [hash |-> Sha256(f.content), info |-> info]>>

\* hash_from_file_info on the file system as it is now.  Opening a removed
\* file fails; reading a directory fails; both are ErrorType::IO.
hash_from_file_info(info) ==
    LET f == fs[info.name]
    IN  IF f.kind # "file" THEN <<"Err", io_error(info.name)>>
        ELSE IF info.size # Len(f.content)
             THEN <<"Err", wrong_size(info.name, info.size, Len(f.content))>>
        ELSE <<"Ok", [hash |-> Sha256(f.content), info |-> info]>>

\* the match on a hashing result, shared by both paths
InsertFile(fm, file) ==
    IF file.hash \in DOMAIN fm
    THEN [fm EXCEPT ![file.hash] = @ \cup {file.info}]
    ELSE fm @@ (file.hash :> {file.info})

AggFiles(fm, result) == IF result[1] = "Ok" THEN InsertFile(fm, result[2]) ELSE fm
AggErrors(es, result) == IF result[1] = "Err" THEN Append(es, result[2]) ELSE es

\* -------------------------------------------------- iteration, chunking
\* walk.files.iter(): the descriptors in ascending path order
RECURSIVE IterOrder(_)
IterOrder(S) ==
    IF S = {} THEN <<>>
    ELSE LET x == CHOOSE y \in S : \A z \in S : y.name <= z.name
         IN  <<x>> \o IterOrder(S \ {x})

\* the strategy test with the file count compared to file_threshold
UseSequential_file_threshold(w, c) ==
    w.total_size > c.size_threshold /\ Cardinality(w.files) > c.file_threshold

\* the strategy test at the head of relate()
UseSequential(w, c) ==
    w.total_size > c.size_threshold /\ Cardinality(w.files) > c.size_threshold

\* the divisor of `total / conf.max_threads as u64`; the division panics
\* when it is 0
ChunkDivisor(c) == c.max_threads

\* the argument of .chunks()
ChunkLen(total, divisor) ==
    LET chunk_size == total \div divisor
    IN  IF chunk_size > 1 THEN chunk_size ELSE 1

\* chunks that drop a shorter last run, as chunks_exact does
RECURSIVE Chunks_exact(_, _)
Chunks_exact(s, n) ==
    IF Len(s) < n THEN <<>>
    ELSE <<SubSeq(s, 1, n)>> \o Chunks_exact(SubSeq(s, n + 1, Len(s)), n)

\* itertools chunks(n): consecutive runs of n items, the last one shorter
RECURSIVE Chunks(_, _)
Chunks(s, n) ==
    IF s = <<>> THEN <<>>
    ELSE IF Len(s) <= n THEN <<s>>
    ELSE <<SubSeq(s, 1, n)>> \o Chunks(SubSeq(s, n + 1, Len(s)), n)

SpawnThreads(w, c) ==
    LET cs == Chunks(IterOrder(w.files), ChunkLen(w.total_size, ChunkDivisor(c)))
    IN  [i \in 1..Len(cs) |-> [chunk |-> cs[i], st |-> "running"]]

\* the loop condition with any() in the place of all()
AllFinished_any == \E i \in 1..Len(threads) : threads[i].st # "running"

\* th.is_finished() for every thread
AllFinished == \A i \in 1..Len(threads) : threads[i].st # "running"

\* the Senders left had relate() dropped its own tx after spawning
Senders_workers ==
    Cardinality({i \in 1..Len(threads) : threads[i].st = "running"})

\* live Senders of the result channel: relate's own tx and one clone per
\* worker whose closure has not ended
Senders ==
    (IF pc \in {"wait", "recv", "final", "join"} THEN 1 ELSE 0)
        + Cardinality({i \in 1..Len(threads) : threads[i].st = "running"})

\* rx as a value that lives only inside the body of the loop
ResultRx_loop_body == pc = "recv"

\* rx exists from its creation until relate() returns or unwinds
ResultRx == pc \in {"wait", "recv", "final", "join"}

\* ------------------------------------------------------------- the GUI
Paths == 1..MaxPaths

\* home.join(".file-deduplicator")
ConfDir == 0

Config == [conf_dir |-> ConfDir]

\* Option<PathBuf> is <<>> (None) or <<p>> (Some(p)); a field the variant
\* does not have is <<>>
StateInit(config, problem) ==
    [tag |-> "Init", config |-> config, problem |-> problem, path |-> <<>>]

StateWork(config, path) ==
    [tag |-> "Work", config |-> config, problem |-> <<>>, path |-> path]

\* FileDialog::new().pick_folder(): nothing, or any folder name
get_target_dir_from_user == {<<>>} \cup {<<p>> : p \in Paths}

\* the menu bar of file_deduplicator.rs, built before the match on self
top_menu(a) == IF a = "file_deduplicator" THEN {"GetWorkDir"} ELSE {}

\* State::view: the messages of the controls it shows
view(a, st) ==
    top_menu(a) \cup (IF st.tag = "Init" THEN {"GetWorkDir"} ELSE {})

\* State::update in State::Init, on what the picker returned
update(st, message, picked) ==
    IF picked # <<>>
    THEN IF picked[1] \in dirs
         THEN StateWork(st.config, picked)
         ELSE [st EXCEPT !.problem = <<"Err", picked>>]
    ELSE [st EXCEPT !.problem = <<"Err", <<>>>>]

\* the GUI while the engine is what runs
GuiAtRest ==
    /\ app = "main"
    /\ state = StateInit(Config, <<"Ok">>)
    /\ dirs = {}
    /\ todo = FALSE

\* ---------------------------------------------------------------- Init
Init ==
    /\ fs \in Trees
    /\ iter \in Iters(Len(fs))
    /\ conf \in Confs
    /\ faults = {}
    /\ pc = "walk"
    /\ wi = 1
    /\ walk = WalkInfoNew
    /\ seqTodo = <<>>
    /\ threads = <<>>
    /\ chan = <<>>
    /\ done = 0
    /\ files = <<>>
    /\ errors = <<>>
    /\ ji = 1
    /\ report = <<>>
    /\ reportRx = TRUE
    /\ panic = "none"
    /\ strategy = "none"
    /\ GuiAtRest

\* ------------------------------------------------------------- actions
\* walk(): the fold consumes one entry of the iterator
WalkStep ==
    /\ pc = "walk"
    /\ walk' = WalkFold(walk, iter[wi])
    /\ wi' = wi + 1
    /\ pc' = IF wi = Len(iter) THEN "walked" ELSE "walk"
    /\ UNCHANGED <<fs, iter, faults, conf, seqTodo, threads, chan, done, files,
                   errors, ji, report, reportRx, panic, strategy>>
    /\ UNCHANGED guiVars

\* relate() up to the coordinator loop: the strategy test, the chunk size,
\* the spawning of one worker per chunk
RelateStart ==
    /\ pc = "walked"
    /\ IF UseSequential(walk, conf)
       THEN /\ seqTodo' = IterOrder(walk.files)
            /\ pc' = "seq"
            /\ strategy' = "seq"
            /\ UNCHANGED <<threads, panic>>
       ELSE IF ChunkDivisor(conf) = 0
       THEN /\ pc' = "panicked"
            /\ panic' = "div0"
            /\ strategy' = "par"
            /\ UNCHANGED <<seqTodo, threads>>
       ELSE /\ threads' = SpawnThreads(walk, conf)
            /\ pc' = "wait"
            /\ strategy' = "par"
            /\ UNCHANGED <<seqTodo, panic>>
    /\ UNCHANGED <<fs, iter, faults, conf, wi, walk, chan, done, files, errors, ji,
                   report, reportRx>>
    /\ UNCHANGED guiVars

\* the progress value of a processed item, on both paths
ItemProgress(d, total) == F32Div(d, total)

\* the terminal value computed like an item's, from done and total
TerminalProgress_computed(d, total) == F32Div(d, total)

\* the value relate() sends after its loop
TerminalProgress(d, total) == F32One

\* the send with its Result discarded instead of expect()ed
SendProgress_ignored(value, next) ==
    /\ report' = IF reportRx THEN Append(report, value) ELSE report
    /\ pc' = next
    /\ panic' = panic

\* report.send(value).expect(..): what the send leaves behind
SendProgress(value, next) ==
    IF reportRx
    THEN /\ report' = Append(report, value)
         /\ pc' = next
         /\ panic' = panic
    ELSE /\ report' = report
         /\ pc' = "panicked"
         /\ panic' = "send"

\* relate_sequential: one iteration of the for_each; the function returns
\* after the last one
SeqStep ==
    /\ pc = "seq"
    /\ seqTodo # <<>>
    /\ LET result == hash_from_file_info(Head(seqTodo))
       IN  /\ files' = AggFiles(files, result)
           /\ errors' = AggErrors(errors, result)
    /\ done' = done + 1
    /\ seqTodo' = Tail(seqTodo)
    /\ SendProgress(ItemProgress(done + 1, walk.total_size),
                    IF Tail(seqTodo) = <<>> THEN "returned" ELSE "seq")
    /\ UNCHANGED <<fs, iter, faults, conf, wi, walk, threads, chan, ji, reportRx,
                   strategy>>
    /\ UNCHANGED guiVars

\* a worker hashes the next descriptor of its chunk and sends the result;
\* the send fails, and the worker panics, once rx is gone
WorkerStep(i) ==
    /\ threads[i].st = "running"
    /\ threads[i].chunk # <<>>
    /\ IF ResultRx
       THEN /\ chan' = Append(chan, hash_from_file_info(Head(threads[i].chunk)))
            /\ threads' = [threads EXCEPT ![i].chunk = Tail(@)]
       ELSE /\ chan' = chan
            /\ threads' = [threads EXCEPT ![i].st = "panicked"]
    /\ UNCHANGED <<fs, iter, faults, conf, pc, wi, walk, seqTodo, done, files,
                   errors, ji, report, reportRx, panic, strategy>>
    /\ UNCHANGED guiVars

\* a worker's closure ends: is_finished() turns true, its tx clone drops
WorkerFinish(i) ==
    /\ threads[i].st = "running"
    /\ threads[i].chunk = <<>>
    /\ threads' = [threads EXCEPT ![i].st = "finished"]
    /\ UNCHANGED <<fs, iter, faults, conf, pc, wi, walk, seqTodo, chan, done, files,
                   errors, ji, report, reportRx, panic, strategy>>
    /\ UNCHANGED guiVars

\* the condition of the while loop
CoordCheck ==
    /\ pc = "wait"
    /\ pc' = IF AllFinished THEN "final" ELSE "recv"
    /\ UNCHANGED <<fs, iter, faults, conf, wi, walk, seqTodo, threads, chan, done,
                   files, errors, ji, report, reportRx, panic, strategy>>
    /\ UNCHANGED guiVars

\* rx.recv_timeout and the match on what it returns
CoordRecv ==
    /\ pc = "recv"
    /\ IF chan # <<>>
       THEN /\ files' = AggFiles(files, Head(chan))
            /\ errors' = AggErrors(errors, Head(chan))
            /\ chan' = Tail(chan)
            /\ done' = done + 1
            /\ SendProgress(ItemProgress(done + 1, walk.total_size), "wait")
       ELSE /\ pc' = IF Senders = 0 THEN "final" ELSE "wait"
            /\ UNCHANGED <<files, errors, chan, done, report, panic>>
    /\ UNCHANGED <<fs, iter, faults, conf, wi, walk, seqTodo, threads, ji, reportRx,
                   strategy>>
    /\ UNCHANGED guiVars

\* report.send(1.0).expect(..)
CoordFinal ==
    /\ pc = "final"
    /\ SendProgress(TerminalProgress(done, walk.total_size), "join")
    /\ UNCHANGED <<fs, iter, faults, conf, wi, walk, seqTodo, threads, chan, done,
                   files, errors, ji, reportRx, strategy>>
    /\ UNCHANGED guiVars

\* th.join() of the next thread, which blocks until that thread has ended
CoordJoin ==
    /\ pc = "join"
    /\ ji <= Len(threads)
    /\ threads[ji].st # "running"
    /\ ji' = ji + 1
    /\ UNCHANGED <<fs, iter, faults, conf, pc, wi, walk, seqTodo, threads, chan,
                   done, files, errors, report, reportRx, panic, strategy>>
    /\ UNCHANGED guiVars

\* Self { files, errors } after the last join
CoordReturn ==
    /\ pc = "join"
    /\ ji > Len(threads)
    /\ pc' = "returned"
    /\ UNCHANGED <<fs, iter, faults, conf, wi, walk, seqTodo, threads, chan, done,
                   files, errors, ji, report, reportRx, panic, strategy>>
    /\ UNCHANGED guiVars

\* ------------------------------------------------------- the environment
\* A change made before walk() saw the entry is another initial tree, and a
\* change made after the entry was hashed is not seen by the run: the
\* environment acts on a file between its enumeration and its hashing.
Running == pc \in {"walked", "seq", "wait", "recv", "final", "join"}

Pending(p) ==
    \/ pc = "walked" /\ \E d \in walk.files : d.name = p
    \/ \E i \in 1..Len(seqTodo) : seqTodo[i].name = p
    \/ \E t \in 1..Len(threads) :
          \E i \in 1..Len(threads[t].chunk) : threads[t].chunk[i].name = p

\* a file's content is replaced after the walk recorded its size
Modify(p, c) ==
    /\ Running
    /\ Cardinality(faults) < MaxFaults
    /\ p \notin faults
    /\ fs[p].kind = "file"
    /\ c # fs[p].content
    /\ Pending(p)
    /\ fs' = [fs EXCEPT ![p] = FileEntry(c)]
    /\ faults' = faults \cup {p}
    /\ UNCHANGED <<iter, conf, pc, wi, walk, seqTodo, threads, chan, done, files,
                   errors, ji, report, reportRx, panic, strategy>>
    /\ UNCHANGED guiVars

\* a file is removed after the walk
Remove(p) ==
    /\ Running
    /\ Cardinality(faults) < MaxFaults
    /\ p \notin faults
    /\ fs[p].kind = "file"
    /\ Pending(p)
    /\ fs' = [fs EXCEPT ![p] = BadEntry("gone")]
    /\ faults' = faults \cup {p}
    /\ UNCHANGED <<iter, conf, pc, wi, walk, seqTodo, threads, chan, done, files,
                   errors, ji, report, reportRx, panic, strategy>>
    /\ UNCHANGED guiVars

\* the caller drops the receiving end of the progress channel
DropReceiver ==
    /\ Running
    /\ reportRx
    /\ reportRx' = FALSE
    /\ UNCHANGED <<fs, iter, faults, conf, pc, wi, walk, seqTodo, threads, chan,
                   done, files, errors, ji, report, panic, strategy>>
    /\ UNCHANGED guiVars

Next ==
    \/ WalkStep
    \/ RelateStart
    \/ SeqStep
    \/ \E i \in 1..Len(threads) : WorkerStep(i)
    \/ \E i \in 1..Len(threads) : WorkerFinish(i)
    \/ CoordCheck
    \/ CoordRecv
    \/ CoordFinal
    \/ CoordJoin
    \/ CoordReturn
    \/ \E p \in 1..Len(fs), c \in Contents : Modify(p, c)
    \/ \E p \in 1..Len(fs) : Remove(p)
    \/ DropReceiver

Spec == Init /\ [][Next]_vars

\* The run with the progress receiver kept alive, under a fair scheduler:
\* the calling thread is one process, the spawned workers are the others.
CallerStep ==
    \/ WalkStep
    \/ RelateStart
    \/ SeqStep
    \/ CoordCheck
    \/ CoordRecv
    \/ CoordFinal
    \/ CoordJoin
    \/ CoordReturn

WorkersStep ==
    \/ \E i \in 1..Len(threads) : WorkerStep(i)
    \/ \E i \in 1..Len(threads) : WorkerFinish(i)

\* the caller before the run: no tree and no configuration chosen yet
LiveInit ==
    /\ fs = <<>>
    /\ iter = <<>>
    /\ conf = [max_threads |-> 0, file_threshold |-> 0, size_threshold |-> 0]
    /\ faults = {}
    /\ pc = "start"
    /\ wi = 1
    /\ walk = WalkInfoNew
    /\ seqTodo = <<>>
    /\ threads = <<>>
    /\ chan = <<>>
    /\ done = 0
    /\ files = <<>>
    /\ errors = <<>>
    /\ ji = 1
    /\ report = <<>>
    /\ reportRx = TRUE
    /\ panic = "none"
    /\ strategy = "none"
    /\ GuiAtRest

\* the caller sets up a tree and a configuration and calls walk()
Start ==
    /\ pc = "start"
    /\ fs' \in Trees
    /\ iter' \in Iters(Len(fs'))
    /\ conf' \in Confs
    /\ pc' = "walk"
    /\ UNCHANGED <<faults, wi, walk, seqTodo, threads, chan, done, files,
                   errors, ji, report, reportRx, panic, strategy>>
    /\ UNCHANGED guiVars

LiveNext ==
    \/ Start
    \/ CallerStep
    \/ WorkersStep
    \/ \E p \in 1..Len(fs), c \in Contents : Modify(p, c)
    \/ \E p \in 1..Len(fs) : Remove(p)

\* a thread that can run is eventually run
Fairness ==
    WF_vars(Start) /\ WF_vars(CallerStep) /\ WF_vars(WorkersStep)

LiveSpec == LiveInit /\ [][LiveNext]_vars /\ Fairness

\* ------------------------------------------------------- the GUI's runs
\* the engine while a GUI binary is what runs
Idle ==
    /\ fs = <<>>
    /\ iter = <<>>
    /\ conf = [max_threads |-> 0, file_threshold |-> 0, size_threshold |-> 0]
    /\ faults = {}
    /\ pc = "start"
    /\ wi = 1
    /\ walk = WalkInfoNew
    /\ seqTodo = <<>>
    /\ threads = <<>>
    /\ chan = <<>>
    /\ done = 0
    /\ files = <<>>
    /\ errors = <<>>
    /\ ji = 1
    /\ report = <<>>
    /\ reportRx = TRUE
    /\ panic = "none"
    /\ strategy = "none"

\* main() of either binary: State::Init with problem Ok(())
GuiInit ==
    /\ Idle
    /\ app \in {"main", "file_deduplicator"}
    /\ state = StateInit(Config, <<"Ok">>)
    /\ dirs \in SUBSET Paths
    /\ todo = FALSE

\* the user presses a control of the current view: iced delivers its
\* message to State::update
Update ==
    /\ ~todo
    /\ \E message \in view(app, state) :
          IF state.tag = "Init"
          THEN /\ \E picked \in get_target_dir_from_user :
                     state' = update(state, message, picked)
               /\ todo' = FALSE
          ELSE /\ state' = state
               /\ todo' = TRUE
    /\ UNCHANGED <<app, dirs>>
    /\ UNCHANGED relateVars

\* a folder is created or removed outside the application
MkDir(p) ==
    /\ p \notin dirs
    /\ dirs' = dirs \cup {p}
    /\ UNCHANGED <<app, state, todo>>
    /\ UNCHANGED relateVars

RmDir(p) ==
    /\ p \in dirs
    /\ dirs' = dirs \ {p}
    /\ UNCHANGED <<app, state, todo>>
    /\ UNCHANGED relateVars

GuiNext ==
    \/ Update
    \/ \E p \in Paths : MkDir(p)
    \/ \E p \in Paths : RmDir(p)

GuiSpec == GuiInit /\ [][GuiNext]_vars

\* ============================================================== claims
\* the descriptors of the inventory that name regular files of the tree
FileDescs == {d \in walk.files : fs[d.name].kind = "file"}

\* the content-equality classes of a set of file descriptors
Classes(ds) ==
    {{d \in ds : fs[d.name].content = c} : c \in Contents} \ {{}}

\* the groups of the Result
Groups == {files[h] : h \in DOMAIN files}

\* no entry of the tree failed during the walk
CleanTree == \A p \in 1..Len(fs) : fs[p].kind \in {"file", "dir"}

ErrorsOfType(t) == {i \in 1..Len(errors) : errors[i].error_type = t}

\* C1: when relate() returns for an inventory walked from a tree of files,
\* with no file changed or removed and the progress receiver alive, the
\* groups are exactly the content-equality classes of the files and the
\* error list is empty.
C1_GroupsMatchPartition ==
    (pc = "returned" /\ CleanTree /\ faults = {} /\ reportRx)
        => (Groups = Classes(FileDescs) /\ errors = <<>>)

\* C2: when relate() returns, the progress values it sent are non-decreasing
\* and the last one is exactly 1.0.
C2_ProgressMonotoneEndsAtOne ==
    pc = "returned"
        => /\ \A i \in 1..(Len(report) - 1) : F32Le(report[i], report[i + 1])
           /\ report # <<>>
           /\ report[Len(report)] = F32One

\* C3: when relate() returns for a tree of N >= 1 files, with the receiver
\* alive, at least N progress values were sent, the first is above 0 and each
\* of the first N is strictly above the one before it.
C3_FirstNStrictlyIncreasing ==
    LET n == Cardinality(FileDescs)
    IN  (pc = "returned" /\ CleanTree /\ faults = {} /\ reportRx /\ n >= 1)
            => /\ Len(report) >= n
               /\ F32Lt(F32Zero, report[1])
               /\ \A i \in 1..(n - 1) : F32Lt(report[i], report[i + 1])

\* C4: in every state, all members of a group carry the same recorded size,
\* and that size is the length of the content the group's key is the digest
\* of (the byte count was verified when the member was hashed).
C4_GroupSizesVerified ==
    \A h \in DOMAIN files :
        /\ \A a, b \in files[h] : a.size = b.size
        /\ \A a \in files[h] :
              \E c \in Contents : Sha256(c) = h /\ Len(c) = a.size

\* C4 witness: a file whose recorded size differs from its content now has
\* the content of an existing group, and was rejected with WrongSize.
C4_Witness ==
    \E i \in ErrorsOfType("WrongSize") :
        /\ fs[errors[i].path].kind = "file"
        /\ Sha256(fs[errors[i].path].content) \in DOMAIN files
        /\ errors[i].expected # errors[i].actual

\* C5: when relate() returns after exactly one file changed its length
\* between the walk and its hashing, the errors hold WrongSize(recorded,
\* read) for that file, no WrongSize for another path, and the groups are
\* the classes of the other files.
C5_TruncatedFileIsolated ==
    \A d \in walk.files :
        (/\ pc = "returned" /\ CleanTree /\ reportRx
         /\ faults = {d.name}
         /\ fs[d.name].kind = "file"
         /\ Len(fs[d.name].content) # d.size)
            => /\ \E i \in 1..Len(errors) :
                     errors[i] = wrong_size(d.name, d.size, Len(fs[d.name].content))
               /\ \A i \in ErrorsOfType("WrongSize") : errors[i].path = d.name
               /\ Groups = Classes(FileDescs \ {d})

\* C6: for an empty inventory and max_threads >= 1, relate() never divides
\* by zero (no chunk-size panic, no per-item progress computed, only 1.0
\* sent), fails only on a dropped receiver, and returns no group and no error.
C6_EmptyInventory ==
    (/\ pc \notin {"walk", "walked"}
     /\ walk.total_size = 0 /\ walk.files = {}
     /\ conf.max_threads >= 1)
        => /\ panic # "div0"
           /\ done = 0
           /\ \A i \in 1..Len(report) : report[i] = F32One
           /\ (pc = "panicked" => ~reportRx)
           /\ (pc = "returned" => files = <<>> /\ errors = <<>> /\ report = <<F32One>>)

\* C6 witness: relate() has returned for an empty inventory.
C6_Witness ==
    /\ pc = "returned" /\ walk.files = {} /\ walk.total_size = 0
    /\ conf.max_threads >= 1 /\ report = <<F32One>>

\* C7: with max_threads = 0 relate() does not fail (0 is treated as 1).
C7_ZeroThreadsCoerced ==
    (conf.max_threads = 0 /\ reportRx) => pc # "panicked"

\* C8: the number of worker threads never exceeds max(1, max_threads).
C8_WorkerCap ==
    Len(threads) <= Max(1, conf.max_threads)

\* C9: the parallel path is taken only when the file count has reached
\* file_threshold and the total size has reached size_threshold; below
\* either threshold the run is sequential.
C9_ParallelOnlyLarge ==
    LET large == /\ Cardinality(walk.files) >= conf.file_threshold
                 /\ walk.total_size >= conf.size_threshold
    IN  /\ strategy = "par" => large
        /\ strategy = "seq" => ~large

\* a step that attempts a progress emission
Emits ==
    \/ SeqStep
    \/ CoordRecv /\ chan # <<>>
    \/ CoordFinal

\* C10: an emission attempted after the receiver was dropped sends nothing
\* and aborts the run; an aborted run never returns and never emits again.
C10_DroppedReceiverAborts ==
    [][/\ (~reportRx /\ Emits) => (pc' = "panicked" /\ report' = report)
       /\ pc = "panicked" => (pc' = "panicked" /\ report' = report)]_vars

\* C10 witness: the parallel path was aborted by a failed send after some
\* progress had been delivered.
C10_Witness ==
    /\ pc = "panicked" /\ panic = "send" /\ ~reportRx
    /\ strategy = "par" /\ report # <<>>

\* ------------------------------------------------------------ C11..C20
RECURSIVE SumSizes(_)
SumSizes(S) ==
    IF S = {} THEN 0
    ELSE LET d == CHOOSE x \in S : TRUE IN d.size + SumSizes(S \ {d})

\* the <<key, member>> pairs of the group map
Grouped == {hd \in (DOMAIN files) \X walk.files : hd[2] \in files[hd[1]]}

\* A file changes only before it is hashed, so hashing a descriptor in the
\* state relate() returns in gives the result its one hashing gave.
HashFails(d) == hash_from_file_info(d)[1] = "Err"

\* C11: when relate() returns after the hashing of a descriptor failed, that
\* descriptor's error is in the error list, the descriptor is in no group,
\* and every descriptor was processed (done counts the whole inventory).
C11_HashFailureRecorded ==
    pc = "returned"
        => \A d \in walk.files :
              HashFails(d)
                  => /\ \E i \in 1..Len(errors) :
                           errors[i] = hash_from_file_info(d)[2]
                     /\ \A h \in DOMAIN files : d \notin files[h]
                     /\ done = Cardinality(walk.files)

\* C12: every progress value sent lies in [0, 1].
C12_ProgressInUnitInterval ==
    \A i \in 1..Len(report) :
        F32Le(F32Zero, report[i]) /\ F32Le(report[i], F32One)

\* C13: once walk() has returned, total_size is the sum of the sizes of the
\* descriptors in files.
C13_TotalIsSumOfSizes ==
    pc # "walk" => walk.total_size = SumSizes(walk.files)

\* C14: walk() on an empty directory yields total_size 0 and no descriptor,
\* and no descriptor of any inventory names a directory.
C14_EmptyDirectoryEmptyInventory ==
    pc # "walk"
        => /\ (Len(fs) = 1 /\ fs[1].kind = "dir")
                 => (walk.total_size = 0 /\ walk.files = {})
           /\ \A d \in walk.files : fs[d.name].kind # "dir"

\* C15: when the parallel path returns, nothing sent is left on the channel,
\* group members plus errors count the inventory, and every descriptor that
\* hashed successfully is in the group of its fingerprint and in no other.
C15_NoResultLost ==
    (strategy = "par" /\ pc = "returned")
        => /\ chan = <<>>
           /\ Cardinality(Grouped) + Len(errors) = Cardinality(walk.files)
           /\ \A d \in walk.files :
                 ~HashFails(d)
                     => \A h \in DOMAIN files :
                           d \in files[h] <=> h = hash_from_file_info(d)[2].hash
           /\ \A d \in walk.files :
                 ~HashFails(d) => hash_from_file_info(d)[2].hash \in DOMAIN files

\* every worker's closure has ended
WorkersEnded == \A i \in 1..Len(threads) : threads[i].st # "running"

\* C16: on the parallel path the terminal 1.0 is sent once, after all
\* per-result values (one per received result) and with every worker ended;
\* nothing is sent after it; relate() returns with every thread joined.
C16_TerminalOnceAfterWorkers ==
    [][/\ (pc = "final" /\ pc' = "join")
            => /\ WorkersEnded
               /\ Len(report) = done
               /\ report' = Append(report, F32One)
       /\ pc \in {"join", "returned"} => report' = report
       /\ (strategy' = "par" /\ pc # "returned" /\ pc' = "returned")
            => /\ ji' = Len(threads') + 1
               /\ \A i \in 1..Len(threads') : threads'[i].st = "finished"
               /\ Len(report') = done' + 1
               /\ report'[Len(report')] = F32One]_vars

\* C16 witness: the parallel path returned after per-result values and the
\* terminal one, with more than one worker joined.
C16_Witness ==
    /\ strategy = "par" /\ pc = "returned"
    /\ Len(threads) >= 2 /\ ji = Len(threads) + 1
    /\ done >= 1 /\ Len(report) = done + 1

\* C17: with every hash call ending, the progress receiver alive and a fair
\* scheduler, every call of relate() eventually returns.
C17_EventuallyReturns == <>(pc = "returned")

\* the path a result on the channel belongs to
ResultName(r) == IF r[1] = "Ok" THEN r[2].info.name ELSE r[2].path

\* where a descriptor of the parallel path is: still in a chunk, on the
\* channel, in the error list, in a group
Occurrences(d) ==
    Cardinality({ti \in (1..Len(threads)) \X (1..MaxEntries + 1) :
                    /\ ti[2] <= Len(threads[ti[1]].chunk)
                    /\ threads[ti[1]].chunk[ti[2]] = d})
        + Cardinality({i \in 1..Len(chan) : ResultName(chan[i]) = d.name})
        + Cardinality({i \in 1..Len(errors) : errors[i].path = d.name})
        + Cardinality({h \in DOMAIN files : d \in files[h]})

PendingTotal ==
    Cardinality({ti \in (1..Len(threads)) \X (1..MaxEntries + 1) :
                    ti[2] <= Len(threads[ti[1]].chunk)})

\* C18: on the parallel path, once the chunks are made (the division of
\* relate.rs:186 did not panic), every descriptor is in exactly one place (one
\* chunk, or one result sent, received or aggregated), no chunk is longer
\* than max(1, total_size / max_threads), and the results sent and still to
\* send count the inventory: each descriptor is hashed once.
C18_ChunksPartition ==
    (strategy = "par" /\ panic # "div0")
        => /\ \A d \in walk.files : Occurrences(d) = 1
           /\ \A t \in 1..Len(threads) :
                 /\ Len(threads[t].chunk)
                        <= Max(1, walk.total_size \div conf.max_threads)
                 /\ \A i \in 1..Len(threads[t].chunk) :
                       threads[t].chunk[i] \in walk.files
           /\ done + Len(chan) + PendingTotal = Cardinality(walk.files)

\* C18 witness: a run whose chunks held two descriptors and one, all hashed
\* and aggregated.
C18_Witness ==
    /\ strategy = "par" /\ pc = "returned"
    /\ Len(threads) = 2 /\ Cardinality(walk.files) = 3
    /\ chan = <<>> /\ done = 3

\* what walk() owes an entry the iterator yields
YieldsDescriptor(p) == fs[p].kind \in {"file", "dir"}

ExpectedError(p) ==
    CASE fs[p].kind = "walkerr" -> io_error(NoPath)
      [] fs[p].kind = "metaerr" -> walkdir_error(p)
      [] OTHER -> no_created(p)

\* C19: during and after walk(), every entry yielded so far is accounted
\* for: a good one by its descriptor in files, a bad one by its Error (with
\* the placeholder path for a traversal error), one Error per bad entry,
\* nothing else in either collection; walk() ends only after the last entry.
C19_EveryEntryAccounted ==
    (pc \in {"walk", "walked"} /\ faults = {})
        => LET seen == 1..(wi - 1)
               good == {i \in seen : YieldsDescriptor(iter[i])}
               bad  == seen \ good
           IN  /\ walk.files = {FileInfo(iter[i], fs[iter[i]].len) : i \in good}
               /\ Len(walk.errors) = Cardinality(bad)
               /\ \A i \in bad :
                     \E j \in 1..Len(walk.errors) :
                         walk.errors[j] = ExpectedError(iter[i])
               /\ \A j \in 1..Len(walk.errors) :
                     \E i \in bad : walk.errors[j] = ExpectedError(iter[i])
               /\ (pc = "walked" <=> wi = Len(iter) + 1)

\* C19 witness: walk() returned after a traversal error in the middle, with
\* the entry yielded after it inventoried.
C19_Witness ==
    /\ pc = "walked" /\ faults = {}
    /\ \E i \in 1..Len(iter), j \in 1..Len(iter) :
          /\ i < j
          /\ fs[iter[i]].kind = "walkerr"
          /\ fs[iter[j]].kind = "file"
          /\ FileInfo(iter[j], fs[iter[j]].len) \in walk.files
    /\ \E k \in 1..Len(walk.errors) : walk.errors[k].path = NoPath

RECURSIVE SeqFold(_, _, _)
SeqFold(rest, fm, es) ==
    IF rest = <<>> THEN <<fm, es>>
    ELSE LET result == hash_from_file_info(Head(rest))
         IN  SeqFold(Tail(rest), AggFiles(fm, result), AggErrors(es, result))

SequentialResult == SeqFold(IterOrder(walk.files), <<>>, <<>>)

ErrorPaths(es) == {es[i].path : i \in 1..Len(es)}

\* C21: on an unchanged file system, what the parallel path returns is what
\* relate_sequential returns for the same inventory (the same group map,
\* the same errored paths), and it sent as many per-result progress values
\* (one per descriptor, before the terminal one).
C21_ParallelEqualsSequential ==
    (strategy = "par" /\ pc = "returned" /\ faults = {})
        => /\ files = SequentialResult[1]
           /\ ErrorPaths(errors) = ErrorPaths(SequentialResult[2])
           /\ Len(report) - 1 = Cardinality(walk.files)

\* C22: while the coordinator is in recv_timeout a Sender of the result
\* channel is alive (relate's own tx), so the receive never reports
\* Disconnected: the loop is never left from the receive, only from its
\* condition, with every worker finished.
C22_NeverDisconnected ==
    [][/\ pc = "recv" => Senders >= 1
       /\ ~(pc = "recv" /\ pc' = "final")
       /\ (pc = "wait" /\ pc' = "final") => AllFinished]_vars

\* C22 witness: the coordinator is in recv_timeout with the channel empty
\* and every worker's clone of tx already dropped.
C22_Witness ==
    /\ pc = "recv" /\ chan = <<>>
    /\ Len(threads) >= 1 /\ AllFinished
    /\ done >= 1

\* C23: as long as the progress receiver is alive no worker has panicked on
\* its send, and the call has ended (rx is gone) only with no worker left
\* running.
C23_NoWorkerSendFails ==
    reportRx
        => /\ \A i \in 1..Len(threads) : threads[i].st # "panicked"
           /\ pc \in {"returned", "panicked"} => WorkersEnded

\* C23 witness: a parallel run with the progress receiver alive whose two
\* workers sent every result and were joined.
C23_Witness ==
    /\ reportRx /\ strategy = "par" /\ pc = "returned"
    /\ Len(threads) = 2
    /\ \A i \in 1..2 : threads[i].st = "finished"
    /\ done + Len(chan) = Cardinality(walk.files)

\* C24: State::update leaves Init for Work only with a picked folder that
\* exists and the same config; any other pick leaves it in Init with the
\* problem set and the same config; in Work nothing is delivered to update,
\* so the todo!() of the Work branch is never reached.
C24_WorkNeverUpdated ==
    [][/\ (state.tag = "Init" /\ state'.tag = "Work")
            => /\ state'.path # <<>> /\ state'.path[1] \in dirs
               /\ state'.config = state.config
       /\ (state.tag = "Init" /\ state'.tag = "Init" /\ state' # state)
            => /\ state'.problem[1] = "Err"
               /\ state'.config = state.config
       /\ state.tag = "Work" => (state' = state /\ ~todo')]_vars

=============================================================================
